---- MODULE Spec2Model ----
(***************************************************************************)
(* hostscanner: the discovery engine (scanner.ScanNetwork and its worker   *)
(* pool) and the address-range expander (network.ParseIPRange and          *)
(* IPRange.GenerateIPs).                                                    *)
(*                                                                         *)
(* ScanSpec models one call of ScanNetwork as the goroutines it starts:    *)
(* the calling goroutine (spawn loop, collector), the feeder, the closer   *)
(* and maxWorkers workers, sharing the two buffered channels jobs and      *)
(* results and the WaitGroup wg.  FairScanSpec adds the weak fairness of    *)
(* each goroutine.                                                         *)
(*                                                                         *)
(* NetSpec models one call of ParseIPRange on a range text followed, when  *)
(* it gives a range, by GenerateIPs, whose loop is one step per iteration. *)
(* A uint32 is held as two 16-bit halves, with arithmetic modulo 2^32.     *)
(***************************************************************************)
EXTENDS Integers, Sequences, FiniteSets, TLC

\* ------------------------------------------------------------------ bounds

\* longest address list handed to ScanNetwork
MaxAddrs == 3
\* largest worker count handed to ScanNetwork (exceeds MaxAddrs)
MaxWorkers == 3
\* longest slice the loop of GenerateIPs is followed to
MaxGen == 10
MaxClicks == 3

\* ------------------------------------------------------------ state

VARIABLES
    ips,            \* ScanNetwork: the address list (argument)
    maxWorkers,     \* ScanNetwork: the worker count (argument)
    pingErr,        \* environment: what cmd.Run() returns for each address
    result,         \* ScanNetwork: *ScanResult
    jobs,           \* chan net.IP: buffered content
    jobsClosed,     \* close(jobs) happened
    results,        \* chan Host: buffered content
    resultsClosed,  \* close(results) happened
    chanCap,        \* capacity of both channels, len(ips)
    wg,             \* sync.WaitGroup counter
    mainPc,         \* position of the goroutine that called ScanNetwork
    w,              \* ScanNetwork: loop variable of the spawn loop
    feederPc,       \* position of the "Send jobs" goroutine
    feederIdx,      \* index of the next element of ips the feeder sends
    closerPc,       \* position of the "Collect results" goroutine
    workerPc,       \* position of each worker goroutine
    workerIp,       \* worker: the ip it received
    workerHost,     \* worker: the host scanHost returned
    panicked,       \* a goroutine panicked (send on closed channel)
    goos,           \* environment: runtime.GOOS
    dnsNames,       \* environment: what net.LookupAddr returns for each address
    arpOutput,      \* environment: what the arp command prints for each address
    probes,         \* history: pingHost calls and echo packets asked, per address
    text,           \* ParseIPRange: the range text (argument), as tokens
    parsed,         \* ParseIPRange: what it returned, (*IPRange, error)
    netPc,          \* position of the caller of ParseIPRange and GenerateIPs
    start,          \* GenerateIPs: start (uint32)
    end,            \* GenerateIPs: end (uint32)
    capacity,       \* GenerateIPs: capacity
    i,              \* GenerateIPs: loop variable (uint32)
    genIps,         \* GenerateIPs: the slice ips it builds
    hostIp,         \* scanHost: the address (argument)
    hostOut,        \* scanHost: the Host it returned
    hostCalls,      \* scanHost: the lookups and commands it issued, in order
    timeout,        \* scanHost: the timeout (argument), a time.Duration
    pingOpt,        \* pingHost: the timeout option its command was given
    hostPc,         \* position of the caller of scanHost
    mac,            \* getVendorFromMAC: the hardware address (argument)
    vendorOut,      \* getVendorFromMAC: what it returned
    vendorPc,       \* position of the caller of getVendorFromMAC
    isScanning,     \* HostScannerUI: a scan is under way
    scanResults,    \* HostScannerUI: the summary on display (nil: none yet)
    uiMessage,      \* HostScannerUI: the error dialog shown last
    goPc,           \* position of the goroutine started by scanNetwork()
    clicks,         \* history: the calls of scanNetwork() so far
    reqs            \* history: the scan requests so far, what came of each

scanVars == <<ips, maxWorkers, pingErr, result, jobs, jobsClosed, results,
              resultsClosed, chanCap, wg, mainPc, w, feederPc, feederIdx,
              closerPc, workerPc, workerIp, workerHost, panicked, goos,
              dnsNames, arpOutput, probes>>

netVars == <<text, parsed, netPc, start, end, capacity, i, genIps>>

hostVars == <<hostIp, hostOut, hostCalls, timeout, pingOpt, hostPc, mac,
              vendorOut, vendorPc>>

uiVars == <<isScanning, scanResults, uiMessage, goPc, clicks, reqs>>

vars == <<scanVars, netVars, hostVars, uiVars>>

\* ------------------------------------------------------------ values

NoIP == <<>>
NoErr == "nil"
ExitErr == "exit status 1"

\* text is a sequence of one-character strings; the empty string
NoText == <<>>

\* the zero Host
NoHost == [IP |-> NoIP, Hostname |-> NoText, MAC |-> NoText, Vendor |-> "",
           IsAlive |-> FALSE, Error |-> NoErr]

\* no timeout option: pingHost built no command
NoOption == [flag |-> "", value |-> 0]

\* the addresses scans are run over
ScanAddrs == {<<127, 0, 0, 1>>, <<10, 0, 0, 2>>}

Workers == 0 .. (MaxWorkers - 1)

SeqsUpTo(S, n) == UNION {[1 .. k -> S] : k \in 0 .. n}

\* number of positions of seq holding x
CountIn(seq, x) == Cardinality({k \in DOMAIN seq : seq[k] = x})

\* number of hosts of the sequence with IsAlive set
AliveIn(hosts) == Cardinality({k \in DOMAIN hosts : hosts[k].IsAlive})

\* ------------------------------------------------------------ environment

\* runtime.GOOS: the three systems pingHost knows and one it does not
GOOSes == {"windows", "darwin", "linux", "plan9"}

ErrUnsupportedOS == "unsupported operating system"
LookupErr == "no such host"

\* what net.LookupAddr can return: an error, no name, one name with its
\* trailing dot, two names
DnsResults ==
    { [names |-> <<>>, err |-> LookupErr],
      [names |-> <<>>, err |-> NoErr],
      [names |-> << <<"p", "i", ".">> >>, err |-> NoErr],
      [names |-> << <<"n", "a", "s">>, <<"p", "i", ".">> >>, err |-> NoErr] }

\* hardware addresses as the arp command prints them
MacLinux == <<"b", "8", ":", "2", "7", ":", "e", "b", ":", "a", "a", ":", "b", "b", ":", "c", "c">>
MacWindows == <<"0", "0", "-", "5", "0", "-", "5", "6", "-", "a", "a", "-", "b", "b", "-", "c", "c">>
MacUnmapped == <<"a", "a", ":", "b", "b", ":", "c", "c", ":", "d", "d", ":", "e", "e", ":", "f", "f">>

\* one line of arp output: the address it is about and its other fields
ArpLine(ip, fields) == [ip |-> ip, fields |-> fields]

\* what the arp command can produce when asked about ip: failure, no line,
\* a line without hardware address, a line of another address, and lines
\* with a hardware address in the forms the systems print
ArpResults(ip) ==
    { [err |-> ExitErr, lines |-> <<>>],
      [err |-> NoErr, lines |-> <<>>],
      [err |-> NoErr, lines |-> << ArpLine(ip, << <<"(", "i", "n", "c", "o", "m", "p", "l", "e", "t", "e", ")">> >>) >>],
      [err |-> NoErr, lines |-> << ArpLine(<<10, 0, 0, 9>>, << <<"e", "t", "h", "e", "r">>, MacLinux >>) >>],
      [err |-> NoErr, lines |-> << ArpLine(<<10, 0, 0, 9>>, << <<"e", "t", "h", "e", "r">>, MacUnmapped >>),
                                   ArpLine(ip, << <<"e", "t", "h", "e", "r">>, MacLinux, <<"e", "t", "h", "0">> >>) >>],
      [err |-> NoErr, lines |-> << ArpLine(ip, << MacWindows, <<"d", "y", "n", "a", "m", "i", "c">> >>) >>],
      [err |-> NoErr, lines |-> << ArpLine(ip, << <<"e", "t", "h", "e", "r">>, MacUnmapped >>) >>] }

\* the environment of the scans of ScanSpec
ScanDns ==
    [a \in ScanAddrs |->
        IF a = <<127, 0, 0, 1>>
        THEN [names |-> << <<"p", "i", ".">> >>, err |-> NoErr]
        ELSE [names |-> <<>>, err |-> LookupErr]]

ScanArp ==
    [a \in ScanAddrs |->
        IF a = <<127, 0, 0, 1>>
        THEN [err |-> NoErr, lines |-> <<>>]
        ELSE [err |-> NoErr, lines |-> << ArpLine(a, << <<"e", "t", "h", "e", "r">>, MacLinux >>) >>]]

NoProbes == [a \in ScanAddrs |-> [calls |-> 0, packets |-> 0]]

\* ------------------------------------------------------------ range text

\* A range text is a sequence of tokens: a decimal numeral without leading
\* zeros is the number it denotes (>= 0), every other piece of text is one
\* of the negative codes below.
\* "."
Dot == -1
\* "/"
Slash == -2
\* "-"
Dash == -3
\* " "
Space == -4
\* a run of letters, as in "invalid.ip.address"
Word == -5
\* the IPv6 literal "::1"
V6One == -6

IsNumeral(t) == t >= 0

\* positions of token t in s
Positions(s, t) == {k \in DOMAIN s : s[k] = t}

\* strings.Contains(s, t) for a one-character t
Contains(s, t) == Positions(s, t) # {}

SetMin(S) == CHOOSE x \in S : \A y \in S : x <= y

\* strings.Split(s, sep) for a one-character sep
RECURSIVE Split(_, _)
Split(s, sep) ==
    IF ~Contains(s, sep)
    THEN <<s>>
    ELSE LET k == SetMin(Positions(s, sep))
         IN  <<SubSeq(s, 1, k - 1)>> \o Split(SubSeq(s, k + 1, Len(s)), sep)

\* strings.TrimSpace(s)
RECURSIVE TrimSpace(_)
TrimSpace(s) ==
    IF s # <<>> /\ Head(s) = Space THEN TrimSpace(Tail(s))
    ELSE IF s # <<>> /\ s[Len(s)] = Space THEN TrimSpace(SubSeq(s, 1, Len(s) - 1))
    ELSE s

\* ------------------------------------------------------------ net.IP

\* a net.IP is its byte sequence: 4 bytes, 16 bytes, or none (nil)
v4InV6Prefix == <<0, 0, 0, 0, 0, 0, 0, 0, 0, 0, 255, 255>>

\* net.IPv4(a, b, c, d): the 16-byte form
IPv4(a, b, c, d) == v4InV6Prefix \o <<a, b, c, d>>

\* ip.To4()
To4(ip) ==
    IF Len(ip) = 4 THEN ip
    ELSE IF Len(ip) = 16 /\ SubSeq(ip, 1, 12) = v4InV6Prefix
         THEN SubSeq(ip, 13, 16)
         ELSE NoIP

\* net.ParseIP(s): dot-decimal IPv4 (four numerals 0..255) or the IPv6
\* literal, in 16-byte form; nil for anything else
ParseIP(s) ==
    IF /\ Len(s) = 7
       /\ \A k \in {1, 3, 5, 7} : IsNumeral(s[k]) /\ s[k] <= 255
       /\ \A k \in {2, 4, 6} : s[k] = Dot
    THEN IPv4(s[1], s[3], s[5], s[7])
    ELSE IF s = <<V6One>>
         THEN <<0, 0, 0, 0, 0, 0, 0, 0, 0, 0, 0, 0, 0, 0, 0, 1>>
         ELSE NoIP

\* a & b and a | b on bytes
RECURSIVE BitAnd(_, _, _)
BitAnd(a, b, bits) ==
    IF bits = 0 THEN 0
    ELSE 2 * BitAnd(a \div 2, b \div 2, bits - 1) + ((a % 2) * (b % 2))

RECURSIVE BitOr(_, _, _)
BitOr(a, b, bits) ==
    IF bits = 0 THEN 0
    ELSE 2 * BitOr(a \div 2, b \div 2, bits - 1)
         + (IF a % 2 = 1 \/ b % 2 = 1 THEN 1 ELSE 0)

\* ^b on a byte
BitNot(b) == 255 - b

RECURSIVE Pow2(_)
Pow2(n) == IF n = 0 THEN 1 ELSE 2 * Pow2(n - 1)

\* net.CIDRMask(ones, bits): ones one-bits, then zero-bits, bits/8 bytes
CIDRMask(ones, bits) ==
    [k \in 1 .. (bits \div 8) |->
        IF ones >= 8 * k THEN 255
        ELSE IF ones <= 8 * (k - 1) THEN 0
        ELSE 256 - Pow2(8 * k - ones)]

\* ip.Mask(mask)
Mask(ip, mask) ==
    LET ip4 == IF Len(mask) = 4 /\ Len(ip) = 16
                  /\ SubSeq(ip, 1, 12) = v4InV6Prefix
               THEN SubSeq(ip, 13, 16) ELSE ip
    IN  IF Len(ip4) # Len(mask) THEN NoIP
        ELSE [k \in 1 .. Len(ip4) |-> BitAnd(ip4[k], mask[k], 8)]

\* net.ParseCIDR(s): the text before the first "/" is an address, the text
\* after it a numeral no larger than the address's bit length
ParseCIDR(s) ==
    LET failed == [ip |-> NoIP, netIP |-> NoIP, mask |-> <<>>, err |-> "ParseError"]
    IN  IF ~Contains(s, Slash) THEN failed
        ELSE
        LET k    == SetMin(Positions(s, Slash))
            addr == ParseIP(SubSeq(s, 1, k - 1))
            m    == SubSeq(s, k + 1, Len(s))
            bits == IF To4(addr) # NoIP THEN 32 ELSE 128
        IN  IF addr = NoIP THEN failed
            ELSE IF ~(Len(m) = 1 /\ IsNumeral(m[1]) /\ m[1] <= bits) THEN failed
            ELSE [ip    |-> addr,
                  netIP |-> Mask(addr, CIDRMask(m[1], bits)),
                  mask  |-> CIDRMask(m[1], bits),
                  err   |-> NoErr]

\* ------------------------------------------------------------ network

ErrInvalidIPAddress == "invalid IP address"
ErrInvalidCIDR == "invalid CIDR notation"
ErrInvalidRange == "invalid IP range format"

\* (*IPRange)(nil) and &IPRange{StartIP, EndIP}
NilRange == [isNil |-> TRUE, StartIP |-> NoIP, EndIP |-> NoIP]
IPRange(s, e) == [isNil |-> FALSE, StartIP |-> s, EndIP |-> e]

\* parseCIDR that goes on with whatever ParseCIDR returned
parseCIDR_NoErrCheck(cidr) ==
    LET c       == ParseCIDR(cidr)
        startIP == Mask(c.ip, c.mask)
        endIP   == [k \in 1 .. Len(startIP) |->
                       BitOr(startIP[k], BitNot(c.mask[k]), 8)]
    IN  [rng |-> IPRange(startIP, endIP), err |-> NoErr]

\* parseCIDR
parseCIDR(cidr) ==
    LET c == ParseCIDR(cidr)
    IN  IF c.err # NoErr
        THEN [rng |-> NilRange, err |-> ErrInvalidCIDR]
        ELSE LET startIP == Mask(c.ip, c.mask)
                 endIP   == [k \in 1 .. Len(startIP) |->
                                BitOr(startIP[k], BitNot(c.mask[k]), 8)]
             IN  [rng |-> IPRange(startIP, endIP), err |-> NoErr]

\* parseRange
parseRange(rangeStr) ==
    LET parts == Split(rangeStr, Dash)
    IN  IF Len(parts) # 2
        THEN [rng |-> NilRange, err |-> ErrInvalidRange]
        ELSE LET startIP == ParseIP(TrimSpace(parts[1]))
                 endIP   == ParseIP(TrimSpace(parts[2]))
             IN  IF startIP = NoIP \/ endIP = NoIP
                 THEN [rng |-> NilRange, err |-> ErrInvalidRange]
                 ELSE [rng |-> IPRange(startIP, endIP), err |-> NoErr]

\* ParseIPRange that looks for the "-" before the "/"
ParseIPRange_DashFirst(ipRange) ==
    IF Contains(ipRange, Dash) THEN parseRange(ipRange)
    ELSE IF Contains(ipRange, Slash) THEN parseCIDR(ipRange)
    ELSE LET ip == ParseIP(ipRange)
         IN  IF ip = NoIP
             THEN [rng |-> NilRange, err |-> ErrInvalidIPAddress]
             ELSE [rng |-> IPRange(ip, ip), err |-> NoErr]

\* ParseIPRange
ParseIPRange(ipRange) ==
    IF Contains(ipRange, Slash) THEN parseCIDR(ipRange)
    ELSE IF Contains(ipRange, Dash) THEN parseRange(ipRange)
    ELSE LET ip == ParseIP(ipRange)
         IN  IF ip = NoIP
             THEN [rng |-> NilRange, err |-> ErrInvalidIPAddress]
             ELSE [rng |-> IPRange(ip, ip), err |-> NoErr]

\* a uint32 is held as its two 16-bit halves (its value is 65536*hi + lo),
\* and its arithmetic is modulo 2^32
U32(hi, lo) == [hi |-> hi, lo |-> lo]

Zero32 == U32(0, 0)

\* a <= b
Le32(a, b) == a.hi < b.hi \/ (a.hi = b.hi /\ a.lo <= b.lo)

\* a + b
Add32(a, b) ==
    LET lo == a.lo + b.lo
    IN  U32((a.hi + b.hi + lo \div 65536) % 65536, lo % 65536)

\* a - b
Sub32(a, b) ==
    LET borrow == IF a.lo < b.lo THEN 1 ELSE 0
    IN  U32((a.hi - b.hi - borrow + 65536) % 65536,
            (a.lo - b.lo + 65536) % 65536)

\* ipToUint32
ipToUint32(ip) ==
    LET ip4 == To4(ip)
    IN  U32(ip4[1] * 256 + ip4[2], ip4[3] * 256 + ip4[4])

\* uint32ToIP
uint32ToIP(n) == IPv4(n.hi \div 256, n.hi % 256, n.lo \div 256, n.lo % 256)

\* the caller passes its text to ParseIPRange
NetParse ==
    /\ netPc = "call"
    /\ parsed' = ParseIPRange(text)
    /\ netPc' = IF parsed'.err # NoErr THEN "error" ELSE "parsed"
    /\ UNCHANGED <<text, start, end, capacity, i, genIps>>
    /\ UNCHANGED <<scanVars, hostVars, uiVars>>

\* GenBegin that takes an endpoint that is no IPv4 address for 0.0.0.0
GenBegin_NilAsZero ==
    /\ netPc = "parsed"
    /\ LET startIP == IF To4(parsed.rng.StartIP) = NoIP THEN <<0, 0, 0, 0>>
                      ELSE To4(parsed.rng.StartIP)
           endIP   == IF To4(parsed.rng.EndIP) = NoIP THEN <<0, 0, 0, 0>>
                      ELSE To4(parsed.rng.EndIP)
       IN  /\ start' = ipToUint32(startIP)
           /\ end' = ipToUint32(endIP)
           /\ capacity' = Add32(Sub32(end', start'), U32(0, 1))
           /\ i' = start'
           /\ netPc' = "loop"
    /\ genIps' = <<>>
    /\ UNCHANGED <<text, parsed>>
    /\ UNCHANGED <<scanVars, hostVars, uiVars>>

\* GenerateIPs lines 95-109: nil for an endpoint that is no IPv4 address,
\* else start, end and capacity are computed and the loop is entered
GenBegin ==
    /\ netPc = "parsed"
    /\ LET startIP == To4(parsed.rng.StartIP)
           endIP   == To4(parsed.rng.EndIP)
       IN  IF startIP = NoIP \/ endIP = NoIP
           THEN /\ netPc' = "done"
                /\ UNCHANGED <<start, end, capacity, i>>
           ELSE /\ start' = ipToUint32(startIP)
                /\ end' = ipToUint32(endIP)
                /\ capacity' = Add32(Sub32(end', start'), U32(0, 1))
                /\ i' = start'
                /\ netPc' = "loop"
    /\ genIps' = <<>>
    /\ UNCHANGED <<text, parsed>>
    /\ UNCHANGED <<scanVars, hostVars, uiVars>>

\* GenerateIPs lines 111-113: one iteration, followed while the slice is
\* no longer than MaxGen
GenLoop ==
    /\ netPc = "loop"
    /\ Le32(i, end)
    /\ Len(genIps) < MaxGen
    /\ genIps' = Append(genIps, uint32ToIP(i))
    /\ i' = Add32(i, U32(0, 1))
    /\ UNCHANGED <<text, parsed, netPc, start, end, capacity>>
    /\ UNCHANGED <<scanVars, hostVars, uiVars>>

\* GenerateIPs lines 111, 115: the loop condition fails, ips is returned
GenReturn ==
    /\ netPc = "loop"
    /\ ~Le32(i, end)
    /\ netPc' = "done"
    /\ UNCHANGED <<text, parsed, start, end, capacity, i, genIps>>
    /\ UNCHANGED <<scanVars, hostVars, uiVars>>

\* the addresses range texts are built from
NetAddrs ==
    { <<192, 168, 1, 0>>, <<192, 168, 1, 1>>, <<192, 168, 1, 5>>,
      <<0, 0, 0, 0>>, <<255, 255, 255, 252>>, <<255, 255, 255, 255>> }

\* the prefix lengths CIDR texts are built from
NetPrefixes == {0, 24, 29, 30, 31, 32, 33, 40}

\* the dot-decimal text of an address
IPText(a) == <<a[1], Dot, a[2], Dot, a[3], Dot, a[4]>>

SingleTexts ==
    {IPText(a) : a \in NetAddrs}
    \cup { <<Word, Dot, Word, Dot, Word>>,
           <<192, Dot, 168, Dot, 1>>,
           <<192, Dot, 168, Dot, 1, Dot, 256>>,
           <<Space>> \o IPText(<<192, 168, 1, 1>>),
           <<V6One>>,
           <<>> }

CIDRTexts ==
    {IPText(a) \o <<Slash, n>> : a \in NetAddrs, n \in NetPrefixes}
    \cup { <<Word, Dot, Word, Dot, Word, Slash, 24>>,
           <<192, Dot, 168, Dot, 1, Dot, 256, Slash, 24>>,
           <<192, Dot, 168, Dot, 1, Slash, 24>>,
           IPText(<<192, 168, 1, 0>>) \o <<Slash>>,
           IPText(<<192, 168, 1, 0>>) \o <<Slash, Word>>,
           IPText(<<192, 168, 1, 0>>) \o <<Slash, 24, Slash, 24>>,
           IPText(<<192, 168, 1, 0>>) \o <<Space, Slash, 24>>,
           IPText(<<192, 168, 1, 1>>) \o <<Dash>> \o IPText(<<192, 168, 1, 5>>)
               \o <<Slash, 24>>,
           <<V6One, Slash, 128>>,
           <<V6One, Slash, 129>> }

RangeTexts ==
    {IPText(a) \o <<Dash>> \o IPText(b) : a, b \in NetAddrs}
    \cup {IPText(a) \o <<Space, Dash, Space>> \o IPText(b) : a, b \in NetAddrs}
    \cup { IPText(<<192, 168, 1, 1>>) \o <<Dash>>,
           <<Dash>> \o IPText(<<192, 168, 1, 1>>),
           IPText(<<192, 168, 1, 1>>) \o <<Dash>> \o IPText(<<192, 168, 1, 5>>)
               \o <<Dash>> \o IPText(<<192, 168, 1, 5>>),
           <<Word, Dash>> \o IPText(<<192, 168, 1, 5>>),
           IPText(<<192, 168, 1, 1>>) \o <<Dash, 192, Dot, 168, Dot, 1, Dot, 256>>,
           <<V6One, Dash, V6One>>,
           IPText(<<192, 168, 1, 1>>) \o <<Dash, V6One>> }

Texts == SingleTexts \cup CIDRTexts \cup RangeTexts

\* no call of ParseIPRange or GenerateIPs is under way
NetIdle ==
    /\ text = <<>>
    /\ parsed = [rng |-> NilRange, err |-> NoErr]
    /\ netPc = "idle"
    /\ start = Zero32
    /\ end = Zero32
    /\ capacity = Zero32
    /\ i = Zero32
    /\ genIps = <<>>

\* the channels and goroutines of ScanNetwork do not exist
PoolIdle ==
    /\ result = [NetworkRange |-> NoText, TotalHosts |-> 0,
                 AliveHosts |-> 0, Hosts |-> <<>>]
    /\ jobs = <<>>
    /\ jobsClosed = FALSE
    /\ results = <<>>
    /\ resultsClosed = FALSE
    /\ chanCap = 0
    /\ wg = 0
    /\ mainPc = "idle"
    /\ w = 0
    /\ feederPc = "unborn"
    /\ feederIdx = 1
    /\ closerPc = "unborn"
    /\ workerPc = [k \in Workers |-> "unborn"]
    /\ workerIp = [k \in Workers |-> NoIP]
    /\ workerHost = [k \in Workers |-> NoHost]
    /\ panicked = FALSE

\* no call of ScanNetwork is under way
ScanIdle ==
    /\ ips = <<>>
    /\ maxWorkers = 0
    /\ pingErr = [a \in ScanAddrs |-> NoErr]
    /\ PoolIdle
    /\ goos = "linux"
    /\ dnsNames = ScanDns
    /\ arpOutput = ScanArp
    /\ probes = NoProbes

\* the summary pointer of a HostScannerUI that has shown no scan yet
NilResult == <<>>

\* no error dialog was shown
NoMessage == <<>>

\* no HostScannerUI runs
UIIdle ==
    /\ isScanning = FALSE
    /\ scanResults = NilResult
    /\ uiMessage = NoMessage
    /\ goPc = "none"
    /\ clicks = 0
    /\ reqs = <<>>

\* no call of scanHost or getVendorFromMAC is under way
HostIdle ==
    /\ hostIp = NoIP
    /\ hostOut = NoHost
    /\ hostCalls = <<>>
    /\ timeout = 0
    /\ pingOpt = NoOption
    /\ hostPc = "idle"
    /\ mac = NoText
    /\ vendorOut = ""
    /\ vendorPc = "idle"

\* the state in which ParseIPRange is called
NetInit ==
    /\ text \in Texts
    /\ parsed = [rng |-> NilRange, err |-> NoErr]
    /\ netPc = "call"
    /\ start = Zero32
    /\ end = Zero32
    /\ capacity = Zero32
    /\ i = Zero32
    /\ genIps = <<>>
    /\ ScanIdle
    /\ HostIdle
    /\ UIIdle

NetNext ==
    \/ NetParse
    \/ GenBegin
    \/ GenLoop
    \/ GenReturn

NetSpec == NetInit /\ [][NetNext]_vars

\* ------------------------------------------------------------ scanner.go

\* strings.ToUpper on one character; the texts it is applied to hold
\* hexadecimal digits and separators
ToUpperChar(c) ==
    CASE c = "a" -> "A"
      [] c = "b" -> "B"
      [] c = "c" -> "C"
      [] c = "d" -> "D"
      [] c = "e" -> "E"
      [] c = "f" -> "F"
      [] OTHER -> c

ToUpper(t) == [k \in DOMAIN t |-> ToUpperChar(t[k])]

\* strings.Count(t, c) for a one-character c
Count(t, c) == Cardinality({k \in DOMAIN t : t[k] = c})

\* strings.ReplaceAll(t, c, "") for a one-character c
RemoveAll(t, c) == SelectSeq(t, LAMBDA x : x # c)

\* strings.HasPrefix(t, prefix)
HasPrefix(t, prefix) ==
    /\ Len(prefix) <= Len(t)
    /\ SubSeq(t, 1, Len(prefix)) = prefix

\* strings.TrimSuffix(t, ".")
TrimSuffixDot(t) ==
    IF t # <<>> /\ t[Len(t)] = "." THEN SubSeq(t, 1, Len(t) - 1) ELSE t

SupportedOS == {"windows", "darwin", "linux"}

\* an external invocation: the function that issued it, the command it ran
\* (name "" when it ran none), the command's first option and the packet
\* count given with it (0 when the command takes none)
Call(fn, name, flag, count) ==
    [fn |-> fn, name |-> name, flag |-> flag, count |-> count]

\* pingHost lines 127-135: the command built on platform os
pingCommand(os) ==
    CASE os = "windows" -> Call("pingHost", "ping", "-n", 1)
      [] os \in {"darwin", "linux"} -> Call("pingHost", "ping", "-c", 1)
      [] OTHER -> Call("pingHost", "", "", 0)

pingCall == pingCommand(goos)

\* time.Millisecond and time.Second: a time.Duration counts nanoseconds
Millisecond == 1000000
Second == 1000 * Millisecond

\* fmt.Sprintf("%.0f", d.Seconds()*1000): the milliseconds of d, rounded to
\* a whole number, as a numeral
FormatMillis(d) == (d + Millisecond \div 2) \div Millisecond

\* pingHost lines 129-133: the timeout option of the command built on
\* platform os for the timeout d
pingTimeoutOption(os, d) ==
    CASE os = "windows" -> [flag |-> "-w", value |-> FormatMillis(d)]
      [] os \in {"darwin", "linux"} -> [flag |-> "-W", value |-> FormatMillis(d)]
      [] OTHER -> NoOption

\* pingHost that returns no error on a platform it does not know
pingHost_NoDetail(ip) ==
    IF goos \in SupportedOS
    THEN [isAlive |-> (pingErr[ip] = NoErr), err |-> pingErr[ip]]
    ELSE [isAlive |-> FALSE, err |-> NoErr]

\* pingHost: (err == nil, err) of cmd.Run(), or the unsupported-platform
\* error
pingHost(ip) ==
    IF goos \in SupportedOS
    THEN [isAlive |-> (pingErr[ip] = NoErr), err |-> pingErr[ip]]
    ELSE [isAlive |-> FALSE, err |-> ErrUnsupportedOS]

\* getMACAddress lines 146-153: the command built for the platform
arpCall ==
    CASE goos = "windows" -> Call("getMACAddress", "arp", "-a", 0)
      [] goos \in {"darwin", "linux"} -> Call("getMACAddress", "arp", "-n", 0)
      [] OTHER -> Call("getMACAddress", "", "", 0)

\* getMACAddress line 166: the field looks like a hardware address
IsMACField(field) == Count(field, ":") = 5 \/ Count(field, "-") = 5

\* the element of a one-element set; binding a value as an element of a
\* set makes TLC compute it once where it is used many times
Only(S) == CHOOSE x \in S : TRUE

\* getMACAddress lines 165-169: the first field of the line that looks like
\* a hardware address, "" when it has none
RECURSIVE FirstMACField(_)
FirstMACField(fields) ==
    IF fields = <<>> THEN NoText
    ELSE IF IsMACField(Head(fields)) THEN Head(fields)
    ELSE FirstMACField(Tail(fields))

\* getMACAddress lines 162-171: the lines are searched in order; a line
\* about ip with a hardware-address field ends the search
RECURSIVE FirstMAC(_, _)
FirstMAC(lines, ip) ==
    IF lines = <<>> THEN NoText
    ELSE Only({ IF field # NoText THEN ToUpper(field)
                ELSE FirstMAC(Tail(lines), ip) :
                   field \in {IF Head(lines).ip = ip
                              THEN FirstMACField(Head(lines).fields)
                              ELSE NoText} })

\* getMACAddress: the first hardware-address field of the first line about
\* ip that has one, in upper case; "" when there is none
getMACAddress(ip) ==
    IF goos \notin SupportedOS THEN NoText
    ELSE IF arpOutput[ip].err # NoErr THEN NoText
    ELSE FirstMAC(arpOutput[ip].lines, ip)

\* getVendorFromMAC lines 188-203: the table of known prefixes
vendors ==
    { [prefix |-> <<"0", "0", ":", "5", "0", ":", "5", "6">>, vendor |-> "VMware"],
      [prefix |-> <<"0", "8", ":", "0", "0", ":", "2", "7">>, vendor |-> "Oracle VirtualBox"],
      [prefix |-> <<"5", "2", ":", "5", "4", ":", "0", "0">>, vendor |-> "QEMU/KVM"],
      [prefix |-> <<"B", "8", ":", "2", "7", ":", "E", "B">>, vendor |-> "Raspberry Pi Foundation"],
      [prefix |-> <<"D", "C", ":", "A", "6", ":", "3", "2">>, vendor |-> "Raspberry Pi Foundation"],
      [prefix |-> <<"E", "4", ":", "5", "F", ":", "0", "1">>, vendor |-> "Raspberry Pi Foundation"],
      [prefix |-> <<"0", "0", ":", "1", "6", ":", "3", "E">>, vendor |-> "Xen"],
      [prefix |-> <<"0", "0", ":", "1", "C", ":", "4", "2">>, vendor |-> "Parallels"],
      [prefix |-> <<"A", "C", ":", "D", "E", ":", "4", "8">>, vendor |-> "Apple"],
      [prefix |-> <<"F", "8", ":", "F", "F", ":", "C", "2">>, vendor |-> "Apple"],
      [prefix |-> <<"2", "8", ":", "C", "D", ":", "C", "1">>, vendor |-> "Apple"],
      [prefix |-> <<"3", "C", ":", "0", "7", ":", "5", "4">>, vendor |-> "Apple"] }

VendorNames == {e.vendor : e \in vendors}

\* getVendorFromMAC that returns "" where it finds no vendor
getVendorFromMAC_Empty(m) ==
    IF Len(m) < 8 THEN ""
    ELSE LET found == {e \in vendors : HasPrefix(m, e.prefix)}
         IN  IF found # {} THEN (CHOOSE e \in found : TRUE).vendor
             ELSE ""

\* getVendorFromMAC: oui is computed (lines 184-186) and the table is then
\* searched with the address itself (lines 205-209)
getVendorFromMAC(m) ==
    IF Len(m) < 8 THEN "Unknown"
    ELSE LET oui == ToUpper(RemoveAll(RemoveAll(SubSeq(m, 1, 8), ":"), "-"))
             found == {e \in vendors : HasPrefix(m, e.prefix)}
         IN  IF found # {} THEN (CHOOSE e \in found : TRUE).vendor
             ELSE "Unknown"

\* ip.String(): the text of an address, the same for the 4-byte and the
\* 16-byte form of an IPv4 address; the text stands as the 4-byte form
String(ip) == IF To4(ip) # NoIP THEN To4(ip) ELSE ip

\* scanHost that resolves name and hardware address whatever pingHost
\* returned
scanHostRun_AlwaysEnrich(ip) ==
    LET p == pingHost(String(ip))
        l == dnsNames[String(ip)]
        m == getMACAddress(String(ip))
    IN  [host |-> [IP |-> ip,
                   Hostname |-> IF l.err = NoErr /\ Len(l.names) > 0
                                THEN TrimSuffixDot(l.names[1])
                                ELSE NoText,
                   MAC |-> m,
                   Vendor |-> IF m # NoText THEN getVendorFromMAC(m) ELSE "",
                   IsAlive |-> p.isAlive, Error |-> p.err],
         calls |-> <<pingCall, Call("net.LookupAddr", "", "", 0), arpCall>>]

\* scanHost lines 108-120: the Host of an address that is alive, from the
\* result p of pingHost, the result l of net.LookupAddr and the result m of
\* getMACAddress
Enriched(ip, p, l, m) ==
    [IP |-> ip,
     Hostname |-> IF l.err = NoErr /\ Len(l.names) > 0
                  THEN TrimSuffixDot(l.names[1])
                  ELSE NoText,
     MAC |-> m,
     Vendor |-> IF m # NoText THEN getVendorFromMAC(m) ELSE "",
     IsAlive |-> p.isAlive, Error |-> p.err]

\* scanHost: the Host built for ip, and the invocations issued on the way
scanHostRun(ip) ==
    Only({ IF p.isAlive
           THEN [host |-> Only({ Enriched(ip, p, l, m) :
                                    l \in {dnsNames[String(ip)]},
                                    m \in {getMACAddress(String(ip))} }),
                 calls |-> <<pingCall, Call("net.LookupAddr", "", "", 0),
                             arpCall>>]
           ELSE [host |-> [IP |-> ip, Hostname |-> NoText, MAC |-> NoText,
                           Vendor |-> "", IsAlive |-> p.isAlive,
                           Error |-> p.err],
                 calls |-> <<pingCall>>] : p \in {pingHost(String(ip))} })

scanHost(ip) == scanHostRun(ip).host

\* MainBegin with the total left unset
MainBegin_NoTotal ==
    /\ mainPc = "begin"
    /\ result' = [NetworkRange |-> NoText, TotalHosts |-> 0,
                  AliveHosts |-> 0, Hosts |-> <<>>]
    /\ chanCap' = Len(ips)
    /\ jobs' = <<>>
    /\ results' = <<>>
    /\ mainPc' = "spawn"
    /\ UNCHANGED <<goos, dnsNames, arpOutput, ips, maxWorkers, pingErr, jobsClosed, resultsClosed, wg, w,
                   feederPc, feederIdx, closerPc, workerPc, workerIp,
                   workerHost, panicked>>
    /\ UNCHANGED <<probes, netVars, hostVars, uiVars>>

\* MainBegin that makes both channels one element short of the address count
MainBegin_OneShort ==
    /\ mainPc = "begin"
    /\ result' = [NetworkRange |-> NoText, TotalHosts |-> Len(ips),
                  AliveHosts |-> 0, Hosts |-> <<>>]
    /\ chanCap' = IF Len(ips) > 0 THEN Len(ips) - 1 ELSE 0
    /\ jobs' = <<>>
    /\ results' = <<>>
    /\ mainPc' = "spawn"
    /\ UNCHANGED <<goos, dnsNames, arpOutput, ips, maxWorkers, pingErr, jobsClosed, resultsClosed, wg, w,
                   feederPc, feederIdx, closerPc, workerPc, workerIp,
                   workerHost, panicked>>
    /\ UNCHANGED <<probes, netVars, hostVars, uiVars>>

\* ScanNetwork lines 42-50: the result, whose NetworkRange is left at the
\* empty string, and the two channels are made
MainBegin ==
    /\ mainPc = "begin"
    /\ result' = [NetworkRange |-> NoText, TotalHosts |-> Len(ips),
                  AliveHosts |-> 0, Hosts |-> <<>>]
    /\ chanCap' = Len(ips)
    /\ jobs' = <<>>
    /\ results' = <<>>
    /\ mainPc' = "spawn"
    /\ UNCHANGED <<goos, dnsNames, arpOutput, ips, maxWorkers, pingErr, jobsClosed, resultsClosed, wg, w,
                   feederPc, feederIdx, closerPc, workerPc, workerIp,
                   workerHost, panicked>>
    /\ UNCHANGED <<probes, netVars, hostVars, uiVars>>

\* MainSpawn without the wg.Add(1)
MainSpawn_NoAdd ==
    /\ mainPc = "spawn"
    /\ ~panicked
    /\ w < maxWorkers
    /\ workerPc' = [workerPc EXCEPT ![w] = "range"]
    /\ w' = w + 1
    /\ UNCHANGED <<goos, dnsNames, arpOutput, ips, maxWorkers, pingErr, result, jobs, jobsClosed, results,
                   resultsClosed, chanCap, wg, mainPc, feederPc, feederIdx,
                   closerPc, workerIp, workerHost, panicked>>
    /\ UNCHANGED <<probes, netVars, hostVars, uiVars>>

\* MainSpawn whose loop runs once more than maxWorkers times
MainSpawn_OneMore ==
    /\ mainPc = "spawn"
    /\ ~panicked
    /\ w <= maxWorkers
    /\ w \in Workers
    /\ wg' = wg + 1
    /\ workerPc' = [workerPc EXCEPT ![w] = "range"]
    /\ w' = w + 1
    /\ UNCHANGED <<goos, dnsNames, arpOutput, ips, maxWorkers, pingErr, result, jobs, jobsClosed, results,
                   resultsClosed, chanCap, mainPc, feederPc, feederIdx,
                   closerPc, workerIp, workerHost, panicked>>
    /\ UNCHANGED <<probes, netVars, hostVars, uiVars>>

\* ScanNetwork lines 54-57: wg.Add(1); go worker(...)
MainSpawn ==
    /\ mainPc = "spawn"
    /\ ~panicked
    /\ w < maxWorkers
    /\ wg' = wg + 1
    /\ workerPc' = [workerPc EXCEPT ![w] = "range"]
    /\ w' = w + 1
    /\ UNCHANGED <<goos, dnsNames, arpOutput, ips, maxWorkers, pingErr, result, jobs, jobsClosed, results,
                   resultsClosed, chanCap, mainPc, feederPc, feederIdx,
                   closerPc, workerIp, workerHost, panicked>>
    /\ UNCHANGED <<probes, netVars, hostVars, uiVars>>

\* ScanNetwork lines 60-65: go func() { feeder }
MainStartFeeder ==
    /\ mainPc = "spawn"
    /\ ~panicked
    /\ ~(w < maxWorkers)
    /\ feederPc' = "send"
    /\ feederIdx' = 1
    /\ mainPc' = "startCloser"
    /\ UNCHANGED <<goos, dnsNames, arpOutput, ips, maxWorkers, pingErr, result, jobs, jobsClosed, results,
                   resultsClosed, chanCap, wg, w, closerPc, workerPc, workerIp,
                   workerHost, panicked>>
    /\ UNCHANGED <<probes, netVars, hostVars, uiVars>>

\* ScanNetwork lines 68-71: go func() { closer }
MainStartCloser ==
    /\ mainPc = "startCloser"
    /\ ~panicked
    /\ closerPc' = "wait"
    /\ mainPc' = "collect"
    /\ UNCHANGED <<goos, dnsNames, arpOutput, ips, maxWorkers, pingErr, result, jobs, jobsClosed, results,
                   resultsClosed, chanCap, wg, w, feederPc, feederIdx, workerPc,
                   workerIp, workerHost, panicked>>
    /\ UNCHANGED <<probes, netVars, hostVars, uiVars>>

\* ScanNetwork lines 61-63: jobs <- ip (blocks while the buffer is full)
FeederSend ==
    /\ feederPc = "send"
    /\ ~panicked
    /\ feederIdx <= Len(ips)
    /\ Len(jobs) < chanCap
    /\ jobs' = Append(jobs, ips[feederIdx])
    /\ feederIdx' = feederIdx + 1
    /\ UNCHANGED <<goos, dnsNames, arpOutput, ips, maxWorkers, pingErr, result, jobsClosed, results,
                   resultsClosed, chanCap, wg, mainPc, w, feederPc, closerPc,
                   workerPc, workerIp, workerHost, panicked>>
    /\ UNCHANGED <<probes, netVars, hostVars, uiVars>>

\* ScanNetwork line 64: close(jobs)
FeederClose ==
    /\ feederPc = "send"
    /\ ~panicked
    /\ feederIdx > Len(ips)
    /\ jobsClosed' = TRUE
    /\ feederPc' = "done"
    /\ UNCHANGED <<goos, dnsNames, arpOutput, ips, maxWorkers, pingErr, result, jobs, results,
                   resultsClosed, chanCap, wg, mainPc, w, feederIdx, closerPc,
                   workerPc, workerIp, workerHost, panicked>>
    /\ UNCHANGED <<probes, netVars, hostVars, uiVars>>

\* CloserClose without the wg.Wait()
CloserClose_NoWait ==
    /\ closerPc = "wait"
    /\ ~panicked
    /\ resultsClosed' = TRUE
    /\ closerPc' = "done"
    /\ UNCHANGED <<goos, dnsNames, arpOutput, ips, maxWorkers, pingErr, result, jobs, jobsClosed, results,
                   chanCap, wg, mainPc, w, feederPc, feederIdx, workerPc,
                   workerIp, workerHost, panicked>>
    /\ UNCHANGED <<probes, netVars, hostVars, uiVars>>

\* ScanNetwork lines 69-70: wg.Wait(); close(results)
CloserClose ==
    /\ closerPc = "wait"
    /\ ~panicked
    /\ wg = 0
    /\ resultsClosed' = TRUE
    /\ closerPc' = "done"
    /\ UNCHANGED <<goos, dnsNames, arpOutput, ips, maxWorkers, pingErr, result, jobs, jobsClosed, results,
                   chanCap, wg, mainPc, w, feederPc, feederIdx, workerPc,
                   workerIp, workerHost, panicked>>
    /\ UNCHANGED <<probes, netVars, hostVars, uiVars>>

\* WorkerRecv that takes the element sent last
WorkerRecv_Last(k) ==
    /\ workerPc[k] = "range"
    /\ ~panicked
    /\ jobs # <<>>
    /\ workerIp' = [workerIp EXCEPT ![k] = jobs[Len(jobs)]]
    /\ jobs' = SubSeq(jobs, 1, Len(jobs) - 1)
    /\ workerPc' = [workerPc EXCEPT ![k] = "scan"]
    /\ UNCHANGED <<goos, dnsNames, arpOutput, ips, maxWorkers, pingErr, result, jobsClosed, results,
                   resultsClosed, chanCap, wg, mainPc, w, feederPc, feederIdx,
                   closerPc, workerHost, panicked>>
    /\ UNCHANGED <<probes, netVars, hostVars, uiVars>>

\* worker line 89: for ip := range jobs, an element is received
WorkerRecv(k) ==
    /\ workerPc[k] = "range"
    /\ ~panicked
    /\ jobs # <<>>
    /\ workerIp' = [workerIp EXCEPT ![k] = Head(jobs)]
    /\ jobs' = Tail(jobs)
    /\ workerPc' = [workerPc EXCEPT ![k] = "scan"]
    /\ UNCHANGED <<goos, dnsNames, arpOutput, ips, maxWorkers, pingErr, result, jobsClosed, results,
                   resultsClosed, chanCap, wg, mainPc, w, feederPc, feederIdx,
                   closerPc, workerHost, panicked>>
    /\ UNCHANGED <<probes, netVars, hostVars, uiVars>>

\* the calls of pingHost among the invocations, and the echo packets they
\* asked for
PingCalls(calls) == SelectSeq(calls, LAMBDA c : c.fn = "pingHost")

RECURSIVE Packets(_)
Packets(calls) ==
    IF calls = <<>> THEN 0
    ELSE (IF Head(calls).fn = "pingHost" THEN Head(calls).count ELSE 0)
         + Packets(Tail(calls))

\* the history after a run of scanHost on ip that issued calls
ProbedIn(history, ip, calls) ==
    [history EXCEPT ![String(ip)] =
        [calls |-> @.calls + Len(PingCalls(calls)),
         packets |-> @.packets + Packets(calls)]]

Probed(ip, calls) == ProbedIn(probes, ip, calls)

\* WorkerScan that probes an address a second time when the first probe
\* failed
WorkerScan_Retry(k) ==
    LET run == scanHostRun(workerIp[k])
    IN  /\ workerPc[k] = "scan"
        /\ ~panicked
        /\ workerHost' = [workerHost EXCEPT ![k] = run.host]
        /\ probes' = Probed(workerIp[k],
                            IF run.host.IsAlive THEN run.calls
                            ELSE run.calls \o run.calls)
        /\ workerPc' = [workerPc EXCEPT ![k] = "send"]
        /\ UNCHANGED <<goos, dnsNames, arpOutput, ips, maxWorkers, pingErr, result, jobs, jobsClosed, results,
                       resultsClosed, chanCap, wg, mainPc, w, feederPc, feederIdx,
                       closerPc, workerIp, panicked>>
        /\ UNCHANGED <<netVars, hostVars, uiVars>>

\* worker line 90: host := scanHost(ip, timeout)
WorkerScan(k) ==
    /\ workerPc[k] = "scan"
    /\ ~panicked
    /\ \E run \in {scanHostRun(workerIp[k])} :
          /\ workerHost' = [workerHost EXCEPT ![k] = run.host]
          /\ probes' = Probed(workerIp[k], run.calls)
    /\ workerPc' = [workerPc EXCEPT ![k] = "send"]
    /\ UNCHANGED <<goos, dnsNames, arpOutput, ips, maxWorkers, pingErr, result, jobs, jobsClosed, results,
                   resultsClosed, chanCap, wg, mainPc, w, feederPc, feederIdx,
                   closerPc, workerIp, panicked>>
    /\ UNCHANGED <<netVars, hostVars, uiVars>>

\* WorkerSend that skips the record of a failed probe
WorkerSend_DropFailed(k) ==
    /\ workerPc[k] = "send"
    /\ ~panicked
    /\ IF resultsClosed
       THEN /\ panicked' = TRUE
            /\ UNCHANGED <<results, workerPc, workerIp, workerHost>>
       ELSE /\ Len(results) < chanCap
            /\ results' = IF workerHost[k].IsAlive
                          THEN Append(results, workerHost[k])
                          ELSE results
            /\ workerPc' = [workerPc EXCEPT ![k] = "range"]
            /\ workerIp' = [workerIp EXCEPT ![k] = NoIP]
            /\ workerHost' = [workerHost EXCEPT ![k] = NoHost]
            /\ UNCHANGED panicked
    /\ UNCHANGED <<goos, dnsNames, arpOutput, ips, maxWorkers, pingErr, result, jobs, jobsClosed,
                   resultsClosed, chanCap, wg, mainPc, w, feederPc, feederIdx,
                   closerPc>>
    /\ UNCHANGED <<probes, netVars, hostVars, uiVars>>

\* worker line 91: results <- host (panics on a closed channel, blocks while
\* the buffer is full), then back to the range at line 89
WorkerSend(k) ==
    /\ workerPc[k] = "send"
    /\ ~panicked
    /\ IF resultsClosed
       THEN /\ panicked' = TRUE
            /\ UNCHANGED <<results, workerPc, workerIp, workerHost>>
       ELSE /\ Len(results) < chanCap
            /\ results' = Append(results, workerHost[k])
            /\ workerPc' = [workerPc EXCEPT ![k] = "range"]
            /\ workerIp' = [workerIp EXCEPT ![k] = NoIP]
            /\ workerHost' = [workerHost EXCEPT ![k] = NoHost]
            /\ UNCHANGED panicked
    /\ UNCHANGED <<goos, dnsNames, arpOutput, ips, maxWorkers, pingErr, result, jobs, jobsClosed,
                   resultsClosed, chanCap, wg, mainPc, w, feederPc, feederIdx,
                   closerPc>>
    /\ UNCHANGED <<probes, netVars, hostVars, uiVars>>

\* WorkerExit that returns after its first pass through the loop, whether
\* or not jobs is drained
WorkerExit_Early(k) ==
    /\ workerPc[k] = "range"
    /\ ~panicked
    /\ jobsClosed
    /\ wg' = wg - 1
    /\ workerPc' = [workerPc EXCEPT ![k] = "done"]
    /\ UNCHANGED <<goos, dnsNames, arpOutput, ips, maxWorkers, pingErr, result, jobs, jobsClosed, results,
                   resultsClosed, chanCap, mainPc, w, feederPc, feederIdx,
                   closerPc, workerIp, workerHost, panicked>>
    /\ UNCHANGED <<probes, netVars, hostVars, uiVars>>

\* WorkerExit without the deferred wg.Done()
WorkerExit_NoDone(k) ==
    /\ workerPc[k] = "range"
    /\ ~panicked
    /\ jobs = <<>>
    /\ jobsClosed
    /\ workerPc' = [workerPc EXCEPT ![k] = "done"]
    /\ UNCHANGED <<goos, dnsNames, arpOutput, ips, maxWorkers, pingErr, result, jobs, jobsClosed, results,
                   resultsClosed, chanCap, wg, mainPc, w, feederPc, feederIdx,
                   closerPc, workerIp, workerHost, panicked>>
    /\ UNCHANGED <<probes, netVars, hostVars, uiVars>>

\* worker lines 87, 89, 93: jobs is closed and drained, the range ends and
\* the deferred wg.Done() runs
WorkerExit(k) ==
    /\ workerPc[k] = "range"
    /\ ~panicked
    /\ jobs = <<>>
    /\ jobsClosed
    /\ wg' = wg - 1
    /\ workerPc' = [workerPc EXCEPT ![k] = "done"]
    /\ UNCHANGED <<goos, dnsNames, arpOutput, ips, maxWorkers, pingErr, result, jobs, jobsClosed, results,
                   resultsClosed, chanCap, mainPc, w, feederPc, feederIdx,
                   closerPc, workerIp, workerHost, panicked>>
    /\ UNCHANGED <<probes, netVars, hostVars, uiVars>>

\* MainCollect that counts every record as alive
MainCollect_CountAll ==
    /\ mainPc = "collect"
    /\ ~panicked
    /\ results # <<>>
    /\ LET host == Head(results)
       IN  result' = [result EXCEPT
                        !.Hosts = Append(@, host),
                        !.AliveHosts = @ + 1]
    /\ results' = Tail(results)
    /\ UNCHANGED <<goos, dnsNames, arpOutput, ips, maxWorkers, pingErr, jobs, jobsClosed, resultsClosed,
                   chanCap, wg, mainPc, w, feederPc, feederIdx, closerPc,
                   workerPc, workerIp, workerHost, panicked>>
    /\ UNCHANGED <<probes, netVars, hostVars, uiVars>>

\* ScanNetwork lines 74-79: one iteration of for host := range results
MainCollect ==
    /\ mainPc = "collect"
    /\ ~panicked
    /\ results # <<>>
    /\ LET host == Head(results)
       IN  result' = [result EXCEPT
                        !.Hosts = Append(@, host),
                        !.AliveHosts = IF host.IsAlive THEN @ + 1 ELSE @]
    /\ results' = Tail(results)
    /\ UNCHANGED <<goos, dnsNames, arpOutput, ips, maxWorkers, pingErr, jobs, jobsClosed, resultsClosed,
                   chanCap, wg, mainPc, w, feederPc, feederIdx, closerPc,
                   workerPc, workerIp, workerHost, panicked>>
    /\ UNCHANGED <<probes, netVars, hostVars, uiVars>>

\* ScanNetwork lines 74, 81-82: results is closed and drained, the summary
\* is returned
MainReturn ==
    /\ mainPc = "collect"
    /\ ~panicked
    /\ results = <<>>
    /\ resultsClosed
    /\ mainPc' = "done"
    /\ UNCHANGED <<goos, dnsNames, arpOutput, ips, maxWorkers, pingErr, result, jobs, jobsClosed, results,
                   resultsClosed, chanCap, wg, w, feederPc, feederIdx, closerPc,
                   workerPc, workerIp, workerHost, panicked>>
    /\ UNCHANGED <<probes, netVars, hostVars, uiVars>>

\* the state in which ScanNetwork is called
ScanInit ==
    /\ ips \in SeqsUpTo(ScanAddrs, MaxAddrs)
    /\ maxWorkers \in 1 .. MaxWorkers
    /\ pingErr \in [ScanAddrs -> {NoErr, ExitErr}]
    /\ goos \in {"linux", "plan9"}
    /\ goos = "plan9" => pingErr = [a \in ScanAddrs |-> NoErr]
    /\ result = [NetworkRange |-> NoText, TotalHosts |-> 0,
                 AliveHosts |-> 0, Hosts |-> <<>>]
    /\ jobs = <<>>
    /\ jobsClosed = FALSE
    /\ results = <<>>
    /\ resultsClosed = FALSE
    /\ chanCap = 0
    /\ wg = 0
    /\ mainPc = "begin"
    /\ w = 0
    /\ feederPc = "unborn"
    /\ feederIdx = 1
    /\ closerPc = "unborn"
    /\ workerPc = [k \in Workers |-> "unborn"]
    /\ workerIp = [k \in Workers |-> NoIP]
    /\ workerHost = [k \in Workers |-> NoHost]
    /\ panicked = FALSE
    /\ dnsNames = ScanDns
    /\ arpOutput = ScanArp
    /\ probes = NoProbes
    /\ NetIdle
    /\ HostIdle
    /\ UIIdle

ScanNext ==
    \/ MainBegin
    \/ MainSpawn
    \/ MainStartFeeder
    \/ MainStartCloser
    \/ FeederSend
    \/ FeederClose
    \/ CloserClose
    \/ \E k \in Workers : WorkerRecv(k)
    \/ \E k \in Workers : WorkerScan(k)
    \/ \E k \in Workers : WorkerSend(k)
    \/ \E k \in Workers : WorkerExit(k)
    \/ MainCollect
    \/ MainReturn

ScanSpec == ScanInit /\ [][ScanNext]_vars

ScanDone == mainPc = "done"

\* the goroutines of one scan are scheduled fairly: a goroutine that can
\* take its next step eventually takes it
ScanFairness ==
    /\ WF_vars(MainBegin \/ MainSpawn \/ MainStartFeeder \/ MainStartCloser
               \/ MainCollect \/ MainReturn)
    /\ WF_vars(FeederSend \/ FeederClose)
    /\ WF_vars(CloserClose)
    /\ \A k \in Workers :
          WF_vars(WorkerRecv(k) \/ WorkerScan(k) \/ WorkerSend(k) \/ WorkerExit(k))

FairScanSpec == ScanInit /\ [][ScanNext]_vars /\ ScanFairness

\* ------------------------------------------------------------ one host

\* the caller of scanHost gets the Host back
HostScan ==
    /\ hostPc = "call"
    /\ hostOut' = scanHost(hostIp)
    /\ hostCalls' = scanHostRun(hostIp).calls
    /\ pingOpt' = pingTimeoutOption(goos, timeout)
    /\ hostPc' = "done"
    /\ UNCHANGED <<hostIp, timeout, mac, vendorOut, vendorPc>>
    /\ UNCHANGED <<scanVars, netVars, uiVars>>

\* the caller of getVendorFromMAC gets the vendor back
VendorLookup ==
    /\ vendorPc = "call"
    /\ vendorOut' = getVendorFromMAC(mac)
    /\ vendorPc' = "done"
    /\ UNCHANGED <<hostIp, hostOut, hostCalls, timeout, pingOpt, hostPc, mac>>
    /\ UNCHANGED <<scanVars, netVars, uiVars>>

\* strings.ToLower on one character of a hardware address
ToLowerChar(c) ==
    CASE c = "A" -> "a"
      [] c = "B" -> "b"
      [] c = "C" -> "c"
      [] c = "D" -> "d"
      [] c = "E" -> "e"
      [] c = "F" -> "f"
      [] OTHER -> c

ToLower(t) == [k \in DOMAIN t |-> ToLowerChar(t[k])]

\* the hardware address with its octets joined by sep
JoinedBy(t, sep) ==
    [k \in DOMAIN t |-> IF t[k] \in {":", "-"} THEN sep ELSE t[k]]

\* the writings of a hardware address: upper or lower case, colons or
\* hyphens
Writings(t) ==
    { JoinedBy(u, sep) : u \in {ToUpper(t), ToLower(t)}, sep \in {":", "-"} }

\* a hardware address of each prefix of the table
TableMacs == { e.prefix \o <<":", "A", "A", ":", "B", "B", ":", "C", "C">> : e \in vendors }

\* the hardware addresses getVendorFromMAC is called with: every writing
\* of an address of each table prefix and of one outside the table, a bare
\* prefix, a text shorter than a prefix, the empty text
MacInputs ==
    UNION { Writings(t) : t \in TableMacs \cup {MacUnmapped} }
    \cup { <<"0", "0", ":", "5", "0", ":", "5", "6">>, <<"0", "0", ":", "5", "0", ":", "5">>, NoText }

\* the timeouts scanHost is called with: the UI's (scanNetwork() line 319),
\* a longer and a shorter one, each a whole number of milliseconds
Timeouts == {Second, 2 * Second, 250 * Millisecond}

\* the state in which scanHost, or getVendorFromMAC, is called
HostInit ==
    /\ ips = <<>>
    /\ maxWorkers = 0
    /\ PoolIdle
    /\ probes = NoProbes
    /\ UIIdle
    /\ NetIdle
    /\ hostOut = NoHost
    /\ hostCalls = <<>>
    /\ pingOpt = NoOption
    /\ vendorOut = ""
    /\ \/ /\ hostPc = "call"
          /\ hostIp \in ScanAddrs
          /\ timeout \in Timeouts
          /\ goos \in GOOSes
          /\ pingErr \in {[a \in ScanAddrs |-> e] : e \in {NoErr, ExitErr}}
          /\ dnsNames \in {[a \in ScanAddrs |-> d] : d \in DnsResults}
          /\ arpOutput \in {[a \in ScanAddrs |-> o] : o \in ArpResults(hostIp)}
          /\ vendorPc = "idle"
          /\ mac = NoText
       \/ /\ vendorPc = "call"
          /\ mac \in MacInputs
          /\ hostPc = "idle"
          /\ hostIp = NoIP
          /\ timeout = 0
          /\ goos = "linux"
          /\ pingErr = [a \in ScanAddrs |-> NoErr]
          /\ dnsNames = ScanDns
          /\ arpOutput = ScanArp

HostNext ==
    \/ HostScan
    \/ VendorLookup

HostSpec == HostInit /\ [][HostNext]_vars

\* ------------------------------------------------------------ the UI

\* the texts entered in the range field: valid ones of each form, one whose
\* start is above its end, an IPv6 address, one whose expansion does not
\* return, invalid ones of each form, and none
UITexts ==
    { IPText(<<192, 168, 1, 1>>),
      IPText(<<192, 168, 1, 0>>) \o <<Slash, 31>>,
      IPText(<<192, 168, 1, 0>>) \o <<Space, Dash, Space>> \o IPText(<<192, 168, 1, 1>>),
      IPText(<<192, 168, 1, 5>>) \o <<Dash>> \o IPText(<<192, 168, 1, 1>>),
      <<V6One>>,
      IPText(<<255, 255, 255, 252>>) \o <<Slash, 30>>,
      <<Word, Dot, Word, Dot, Word>>,
      IPText(<<192, 168, 1, 0>>) \o <<Slash, 40>>,
      IPText(<<192, 168, 1, 1>>) \o <<Dash>>,
      <<>> }

\* the addresses the scans started from the UI probe
UIAddrs == { <<192, 168, 1, 0>>, <<192, 168, 1, 1>> }

\* ScanNetwork's third argument at the UI's call
UIWorkers == 100

\* the orders in which n records can arrive
Perms(n) ==
    {f \in [1 .. n -> 1 .. n] : \A a, b \in 1 .. n : f[a] = f[b] => a = b}

\* ScanNetwork as its caller sees it: the summaries it can return for the
\* list, one record per address in any order
Summaries(list) ==
    { LET hosts == [k \in 1 .. Len(list) |-> scanHost(list[f[k]])]
      IN  [NetworkRange |-> NoText, TotalHosts |-> Len(list),
           AliveHosts |-> AliveIn(hosts),
           Hosts |-> hosts] : f \in Perms(Len(list)) }

\* the history after ScanNetwork has probed every address of the list
RECURSIVE ProbedAll(_, _)
ProbedAll(history, list) ==
    IF list = <<>> THEN history
    ELSE ProbedAll(ProbedIn(history, Head(list), scanHostRun(Head(list)).calls),
                   Tail(list))

\* what a request shows of itself so far
Request(t, err, message, spawned) ==
    [text |-> t, err |-> err, message |-> message, spawned |-> spawned,
     scans |-> 0, probed |-> 0]

\* scanNetwork() that starts the goroutine whatever ParseIPRange returned
scanNetwork_NoErrCheck(t) ==
    /\ clicks < MaxClicks
    /\ clicks' = clicks + 1
    /\ IF isScanning
       THEN UNCHANGED <<isScanning, uiMessage, goPc, reqs, text, parsed, netPc>>
       ELSE IF t = <<>>
       THEN /\ uiMessage' = <<"Please enter an IP range">>
            /\ reqs' = Append(reqs, Request(t, NoErr, uiMessage', FALSE))
            /\ UNCHANGED <<isScanning, goPc, text, parsed, netPc>>
       ELSE /\ text' = t
            /\ parsed' = ParseIPRange(t)
            /\ IF parsed'.err # NoErr
               THEN uiMessage' = <<"Invalid IP range: %v", parsed'.err>>
               ELSE UNCHANGED uiMessage
            /\ isScanning' = TRUE
            /\ netPc' = "parsed"
            /\ goPc' = "generate"
            /\ reqs' = Append(reqs, Request(t, parsed'.err,
                                 IF parsed'.err # NoErr THEN uiMessage'
                                 ELSE NoMessage, TRUE))
    /\ UNCHANGED <<scanResults, start, end, capacity, i, genIps>>
    /\ UNCHANGED <<scanVars, hostVars>>

\* scanNetwork() lines 285-311, up to the start of the goroutine; t is the
\* text of the range field
scanNetwork(t) ==
    /\ clicks < MaxClicks
    /\ clicks' = clicks + 1
    /\ IF isScanning
       THEN UNCHANGED <<isScanning, uiMessage, goPc, reqs, text, parsed, netPc>>
       ELSE IF t = <<>>
       THEN /\ uiMessage' = <<"Please enter an IP range">>
            /\ reqs' = Append(reqs, Request(t, NoErr, uiMessage', FALSE))
            /\ UNCHANGED <<isScanning, goPc, text, parsed, netPc>>
       ELSE /\ text' = t
            /\ parsed' = ParseIPRange(t)
            /\ IF parsed'.err # NoErr
               THEN /\ uiMessage' = <<"Invalid IP range: %v", parsed'.err>>
                    /\ isScanning' = FALSE
                    /\ netPc' = "error"
                    /\ reqs' = Append(reqs, Request(t, parsed'.err, uiMessage', FALSE))
                    /\ UNCHANGED goPc
               ELSE /\ isScanning' = TRUE
                    /\ netPc' = "parsed"
                    /\ goPc' = "generate"
                    /\ reqs' = Append(reqs, Request(t, NoErr, NoMessage, TRUE))
                    /\ UNCHANGED uiMessage
    /\ UNCHANGED <<scanResults, start, end, capacity, i, genIps>>
    /\ UNCHANGED <<scanVars, hostVars>>

\* scanNetwork() line 319, in the goroutine: ScanNetwork runs over the
\* addresses GenerateIPs returned
GoScanNetwork ==
    /\ goPc = "generate"
    /\ netPc = "done"
    /\ ips' = genIps
    /\ maxWorkers' = UIWorkers
    /\ result' \in Summaries(genIps)
    /\ probes' = ProbedAll(probes, genIps)
    /\ reqs' = [reqs EXCEPT ![Len(reqs)] =
                   [@ EXCEPT !.scans = @ + 1, !.probed = @ + Len(genIps)]]
    /\ goPc' = "scanned"
    /\ UNCHANGED <<pingErr, goos, dnsNames, arpOutput, jobs, jobsClosed,
                   results, resultsClosed, chanCap, wg, mainPc, w, feederPc,
                   feederIdx, closerPc, workerPc, workerIp, workerHost,
                   panicked>>
    /\ UNCHANGED <<isScanning, scanResults, uiMessage, clicks>>
    /\ UNCHANGED <<netVars, hostVars>>

\* scanNetwork() lines 321-327: the update queued by the goroutine runs
GoShowResults ==
    /\ goPc = "scanned"
    /\ scanResults' = <<result>>
    /\ isScanning' = FALSE
    /\ goPc' = "none"
    /\ UNCHANGED <<uiMessage, clicks, reqs>>
    /\ UNCHANGED <<scanVars, netVars, hostVars>>

\* the state in which the UI waits for its first request
UIInit ==
    /\ ips = <<>>
    /\ maxWorkers = 0
    /\ PoolIdle
    /\ goos = "linux"
    /\ pingErr = [a \in UIAddrs |-> IF a[4] = 1 THEN NoErr ELSE ExitErr]
    /\ dnsNames = [a \in UIAddrs |-> [names |-> <<>>, err |-> LookupErr]]
    /\ arpOutput = [a \in UIAddrs |-> [err |-> NoErr, lines |-> <<>>]]
    /\ probes = [a \in UIAddrs |-> [calls |-> 0, packets |-> 0]]
    /\ NetIdle
    /\ HostIdle
    /\ UIIdle

UINext ==
    \/ \E t \in UITexts : scanNetwork(t)
    \/ GenBegin
    \/ GenLoop
    \/ GenReturn
    \/ GoScanNetwork
    \/ GoShowResults

UISpec == UIInit /\ [][UINext]_vars

\* ------------------------------------------------------------ claims

\* the addresses of a sequence of hosts
HostIPs(hosts) == [k \in DOMAIN hosts |-> hosts[k].IP]

\* what a scan of ips one address after the other, in input order, returns
SequentialHosts == [k \in DOMAIN ips |-> scanHost(ips[k])]

\* C1: when ScanNetwork returns, the summary holds exactly len(ips) records,
\* for every worker count from 1 up and under every interleaving.
C1_ExactlyNRecords ==
    ScanDone => Len(result.Hosts) = Len(ips)

C1_Witness ==
    /\ ScanDone
    /\ Len(ips) >= 2
    /\ maxWorkers > Len(ips)
    /\ Len(result.Hosts) = Len(ips)

\* C2: every submitted address is, at every moment after the channels are
\* made, in exactly one place (not yet fed, in jobs, held by a worker, in
\* results, or in the summary), whatever its probe outcome, so that when
\* ScanNetwork returns the addresses of the records are the input addresses
\* as a multiset.
C2_ExactlyOneRecordPerAddress ==
    /\ mainPc # "begin" =>
         \A a \in ScanAddrs :
            CountIn(ips, a) =
                  CountIn(SubSeq(ips, feederIdx, Len(ips)), a)
                + CountIn(jobs, a)
                + Cardinality({k \in Workers : workerIp[k] = a})
                + CountIn(HostIPs(results), a)
                + CountIn(HostIPs(result.Hosts), a)
    /\ \A k \in Workers :
          workerPc[k] = "send" => workerHost[k].IP = workerIp[k]
    /\ ScanDone =>
         \A a \in ScanAddrs :
            CountIn(HostIPs(result.Hosts), a) = CountIn(ips, a)

C2_Witness ==
    /\ ScanDone
    /\ Len(ips) >= 2
    /\ ips[1] = ips[2]
    /\ \E k \in DOMAIN result.Hosts : ~result.Hosts[k].IsAlive
    /\ CountIn(HostIPs(result.Hosts), ips[1]) = CountIn(ips, ips[1])

\* C3: in the summary ScanNetwork returns, TotalHosts equals len(Hosts).
C3_TotalEqualsLen ==
    ScanDone => result.TotalHosts = Len(result.Hosts)

C3_Witness ==
    /\ ScanDone
    /\ maxWorkers = 1
    /\ result.TotalHosts >= 2
    /\ result.TotalHosts = Len(result.Hosts)

\* C4: at every moment of the collection, and so in the returned summary,
\* AliveHosts is the number of records of Hosts with IsAlive true.
C4_AliveCount ==
    result.AliveHosts = AliveIn(result.Hosts)

C4_Witness ==
    /\ ScanDone
    /\ result.AliveHosts >= 1
    /\ result.AliveHosts < Len(result.Hosts)
    /\ result.AliveHosts = AliveIn(result.Hosts)

\* C5: under fair scheduling every scan eventually returns its summary.
C5_ScanCompletes ==
    <>ScanDone

C5_Witness ==
    /\ ScanDone
    /\ Len(ips) >= 2
    /\ \A a \in ScanAddrs : pingErr[a] # NoErr
    /\ result.AliveHosts = 0

\* C6: the returned records are, as a multiset, the records a sequential
\* scan in input order gives, and the two counts are those of that scan:
\* they are a function of the address list and the probe outcomes alone, so
\* two scans that differ only in worker count or interleaving agree on them.
C6_SameForEveryWorkerCount ==
    ScanDone =>
        /\ Len(result.Hosts) = Len(SequentialHosts)
        /\ result.AliveHosts = AliveIn(SequentialHosts)
        /\ \A k \in DOMAIN SequentialHosts :
              CountIn(result.Hosts, SequentialHosts[k])
                  = CountIn(SequentialHosts, SequentialHosts[k])

C6_Witness ==
    /\ ScanDone
    /\ maxWorkers = 2
    /\ Len(ips) = 3
    /\ result.Hosts # SequentialHosts
    /\ result.AliveHosts = 1

\* ---- the expander's claims, stated on the text and on addresses as
\* ---- their four octets

\* a <= b and a < b as addresses
AddrLe(a, b) ==
    \/ a = b
    \/ \E k \in 1 .. 4 : a[k] < b[k] /\ \A j \in 1 .. (k - 1) : a[j] = b[j]

AddrLt(a, b) == a # b /\ AddrLe(a, b)

\* the address after a, none after 255.255.255.255
HasNextAddr(a) == a # <<255, 255, 255, 255>>

NextAddr(a) ==
    IF a[4] < 255 THEN <<a[1], a[2], a[3], a[4] + 1>>
    ELSE IF a[3] < 255 THEN <<a[1], a[2], a[3] + 1, 0>>
    ELSE IF a[2] < 255 THEN <<a[1], a[2] + 1, 0, 0>>
    ELSE <<a[1] + 1, 0, 0, 0>>

\* number of leading bits of octet k that a prefix of length n covers
KeptBits(n, k) ==
    IF n >= 8 * k THEN 8 ELSE IF n <= 8 * (k - 1) THEN 0 ELSE n - 8 * (k - 1)

\* network and broadcast address of a/n
NetworkOf(a, n) ==
    [k \in 1 .. 4 |-> a[k] - (a[k] % Pow2(8 - KeptBits(n, k)))]

BroadcastOf(a, n) ==
    [k \in 1 .. 4 |-> NetworkOf(a, n)[k] + Pow2(8 - KeptBits(n, k)) - 1]

\* the slice GenerateIPs has built so far is first, first+1, ... and stays
\* at or below last
Consecutive(first, last) ==
    /\ genIps # <<>> => To4(genIps[1]) = first
    /\ \A k \in DOMAIN genIps : AddrLe(To4(genIps[k]), last)
    /\ \A k \in 1 .. (Len(genIps) - 1) :
          /\ HasNextAddr(To4(genIps[k]))
          /\ To4(genIps[k + 1]) = NextAddr(To4(genIps[k]))

\* GenerateIPs has returned the slice first .. last
Returned(first, last) ==
    netPc = "done" => genIps # <<>> /\ To4(genIps[Len(genIps)]) = last

InGenerate == netPc \in {"loop", "done"}

\* C7: for the text a.b.c.d/n with n in 0..32, ParseIPRange gives a range
\* and GenerateIPs builds network, network+1, ... up to the broadcast
\* address and returns it: 2^(32-n) addresses, ascending, none twice.
C7_CIDRExpansion ==
    \A a \in NetAddrs : \A n \in {m \in NetPrefixes : m <= 32} :
        text = IPText(a) \o <<Slash, n>> =>
            /\ netPc # "error"
            /\ InGenerate =>
                 /\ Consecutive(NetworkOf(a, n), BroadcastOf(a, n))
                 /\ n >= 2 => Len(genIps) <= Pow2(32 - n)
                 /\ Returned(NetworkOf(a, n), BroadcastOf(a, n))

\* C8: for the text A-B with A <= B, GenerateIPs builds A, A+1, ... up to B
\* and returns it: B - A + 1 addresses, all within [A, B], ascending, no
\* gaps, none twice.
C8_RangeExpansion ==
    \A a, b \in NetAddrs :
        (/\ AddrLe(a, b)
         /\ text \in {IPText(a) \o <<Dash>> \o IPText(b),
                      IPText(a) \o <<Space, Dash, Space>> \o IPText(b)}) =>
            /\ netPc # "error"
            /\ InGenerate =>
                 /\ Consecutive(a, b)
                 /\ \A k \in DOMAIN genIps : AddrLe(a, To4(genIps[k]))
                 /\ Returned(a, b)

\* C9: for the dot-decimal text of a single address, GenerateIPs returns
\* exactly that one address.
C9_SingleAddress ==
    \A a \in NetAddrs :
        text = IPText(a) =>
            /\ netPc # "error"
            /\ InGenerate =>
                 /\ Len(genIps) <= 1
                 /\ \A k \in DOMAIN genIps : To4(genIps[k]) = a
                 /\ netPc = "done" => Len(genIps) = 1

\* the tokens of t before its first "/" (all of t when it has none)
AddressPart(t) ==
    IF Contains(t, Slash) THEN SubSeq(t, 1, SetMin(Positions(t, Slash)) - 1) ELSE t

\* C10: ParseIPRange returns a range and no error, or an error and no
\* range; text with letters where an address belongs, text with an octet
\* above 255 and IPv4 CIDR text with a prefix length above 32 give the
\* error and no range (the CIDR error when the text has a "/").
C10_RangeOrError ==
    netPc \notin {"idle", "call"} =>
        /\ parsed.rng.isNil <=> parsed.err # NoErr
        /\ ~parsed.rng.isNil => parsed.rng.StartIP # NoIP /\ parsed.rng.EndIP # NoIP
        /\ Contains(AddressPart(text), Word) => parsed.rng.isNil
        /\ (\E k \in DOMAIN AddressPart(text) : AddressPart(text)[k] > 255)
              => parsed.rng.isNil
        /\ \A a \in NetAddrs : \A n \in {m \in NetPrefixes : m > 32} :
              text = IPText(a) \o <<Slash, n>> =>
                  parsed.rng.isNil /\ parsed.err = ErrInvalidCIDR
        /\ (Contains(text, Slash) /\ parsed.rng.isNil) => parsed.err = ErrInvalidCIDR

C10_Witness ==
    /\ netPc = "error"
    /\ text = IPText(<<192, 168, 1, 0>>) \o <<Slash, 40>>
    /\ parsed.rng.isNil
    /\ parsed.err = ErrInvalidCIDR

\* ---- the claims on one host: probe, enrichment, vendor

\* the first three octets of a hardware address, without separators and in
\* upper case
OUIOf(m) == ToUpper(RemoveAll(RemoveAll(SubSeq(m, 1, 8), ":"), "-"))

\* the first three octets of m are those of the table prefix
SameOUI(m, prefix) == Len(m) >= 8 /\ OUIOf(m) = OUIOf(prefix)

\* C11: for every prefix of the vendor table and every hardware address whose
\* first three octets equal it, written in upper or lower case and joined by
\* colons or by hyphens, getVendorFromMAC returns the vendor mapped to the
\* prefix.
C11_VendorAnyWriting ==
    vendorPc = "done" =>
        \A e \in vendors : SameOUI(mac, e.prefix) => vendorOut = e.vendor

\* ---- the claim on the UI's scan request

\* the request's text does not parse
FailsToParse(r) == ParseIPRange(r.text).err # NoErr

\* C12: when the range text of a request fails to parse, the error is shown
\* by the handler itself and nothing is started for the request: no
\* goroutine, no call of ScanNetwork, no probe of an address; the UI is
\* ready for the next request when the handler returns.
C12_NoScanOnParseError ==
    /\ \A k \in DOMAIN reqs :
          FailsToParse(reqs[k]) =>
              /\ reqs[k].message # NoMessage
              /\ reqs[k].text # <<>> =>
                    reqs[k].message = <<"Invalid IP range: %v",
                                        ParseIPRange(reqs[k].text).err>>
              /\ ~reqs[k].spawned
              /\ reqs[k].scans = 0
              /\ reqs[k].probed = 0
    /\ reqs # <<>> /\ FailsToParse(reqs[Len(reqs)]) =>
          /\ uiMessage = reqs[Len(reqs)].message
          /\ ~isScanning
          /\ goPc = "none"

\* a request that fails to parse comes after one whose scan probed addresses
C12_Witness ==
    /\ Len(reqs) >= 2
    /\ reqs[1].scans = 1
    /\ reqs[1].probed > 0
    /\ reqs[2].err = ErrInvalidCIDR
    /\ \E a \in DOMAIN probes : probes[a].calls > 0

\* ---- the claims on the pool's queues and workers

\* the workers started so far, those that hold an address, those that probe
Spawned == {k \in Workers : workerPc[k] # "unborn"}
Holding == {k \in Workers : workerPc[k] \in {"scan", "send"}}
Probing == {k \in Workers : workerPc[k] = "scan"}

\* C13: results is closed only when every one of the maxWorkers workers has
\* finished, so no worker sends on the closed channel (no goroutine panics),
\* and the collection loop ends exactly when results is closed and drained.
C13_CloseAfterWorkers ==
    /\ resultsClosed =>
          /\ w = maxWorkers
          /\ \A k \in Workers : k < maxWorkers => workerPc[k] = "done"
          /\ Holding = {}
    /\ ~panicked
    /\ mainPc = "collect" =>
          (ENABLED MainReturn <=> (resultsClosed /\ results = <<>>))
    /\ ScanDone => resultsClosed /\ results = <<>>

\* results is closed while records wait in it and the loop still runs
C13_Witness ==
    /\ resultsClosed
    /\ results # <<>>
    /\ mainPc = "collect"
    /\ maxWorkers >= 2

\* C14: jobs and results never hold more than Len(ips) elements, and a
\* producer is never held up by a full queue: the feeder's send is enabled
\* whenever it has an address left to send, a worker's send whenever it has a
\* record to send, whatever the collector has consumed.
C14_QueuesNeverFull ==
    /\ Len(jobs) <= Len(ips)
    /\ Len(results) <= Len(ips)
    /\ mainPc # "begin" => chanCap = Len(ips)
    /\ feederPc = "send" /\ feederIdx <= Len(ips) =>
          Len(jobs) < chanCap /\ ENABLED FeederSend
    /\ \A k \in Workers :
          workerPc[k] = "send" =>
              Len(results) < chanCap /\ ENABLED WorkerSend(k)

\* every record waits in results and the collector has consumed none; the
\* last worker is about to send when results holds all records but one
C14_Witness ==
    /\ Len(ips) >= 2
    /\ Len(results) = Len(ips) - 1
    /\ result.Hosts = <<>>
    /\ \E k \in Workers : workerPc[k] = "send"

\* the addresses in the order in which they pass through the pool: those
\* collected, those waiting in results, those held by worker 0, those waiting
\* in jobs, those the feeder has not sent yet
Pipeline ==
    HostIPs(result.Hosts) \o HostIPs(results)
    \o (IF 0 \in Holding THEN <<workerIp[0]>> ELSE <<>>)
    \o jobs \o SubSeq(ips, feederIdx, Len(ips))

\* C15: with maxWorkers = 1 at most one address is being probed at any
\* time, the addresses are probed in the order of ips (the address the
\* worker holds is always the one after those whose records exist), and
\* the records of the returned summary are in the order of ips.
C15_SingleWorkerSequential ==
    maxWorkers = 1 =>
        /\ Cardinality(Holding) <= 1
        /\ Pipeline = ips
        /\ \A a \in ScanAddrs :
              probes[a].calls =
                  CountIn(HostIPs(result.Hosts) \o HostIPs(results)
                          \o (IF workerPc[0] = "send" THEN <<workerIp[0]>>
                              ELSE <<>>), a)
        /\ ScanDone => result.Hosts = SequentialHosts

\* a scan of three addresses, not all the same, has returned with one worker
C15_Witness ==
    /\ maxWorkers = 1
    /\ ScanDone
    /\ Len(ips) >= 3
    /\ ips[1] # ips[2]
    /\ result.Hosts = SequentialHosts

\* the workers that hold address a
HoldingAddr(a) == {k \in Holding : workerIp[k] = a}

\* C16: ScanNetwork starts exactly maxWorkers workers, and in every state the
\* number of addresses held by workers (probe and enrichment in progress, or
\* record not yet sent) is at most maxWorkers and at most Len(ips); an
\* element of ips is never held by two workers (the workers that hold an
\* address are no more than its occurrences in ips).
C16_BoundedWorkers ==
    /\ w <= maxWorkers
    /\ Spawned = {k \in Workers : k < w}
    /\ mainPc \in {"startCloser", "collect", "done"} =>
          Cardinality(Spawned) = maxWorkers
    /\ Cardinality(Holding) <= maxWorkers
    /\ Cardinality(Holding) <= Len(ips)
    /\ Cardinality(Probing) <= Cardinality(Holding)
    /\ \A a \in ScanAddrs : Cardinality(HoldingAddr(a)) <= CountIn(ips, a)
    /\ \A k \in Holding : workerIp[k] \in ScanAddrs

\* three workers run over two different addresses and both are being probed
C16_Witness ==
    /\ maxWorkers = 3
    /\ Len(ips) = 2
    /\ ips[1] # ips[2]
    /\ Cardinality(Spawned) = 3
    /\ Cardinality(Probing) = 2

\* the addresses whose scanHost has returned: records collected, records in
\* results, records about to be sent
Scanned ==
    HostIPs(result.Hosts) \o HostIPs(results)
    \o SelectSeq([k \in 1 .. MaxWorkers |->
                     IF workerPc[k - 1] = "send" THEN workerIp[k - 1] ELSE NoIP],
                 LAMBDA a : a # NoIP)

\* C17: within one scan pingHost is called once for each element of ips: in
\* every state the calls made for an address are as many as the records that
\* exist for it, never more than its occurrences in ips, and as many as its
\* occurrences when the scan returns, whether the probes fail or not; each
\* call runs the echo utility for one packet (none on a platform without
\* one).
C17_ProbedExactlyOnce ==
    \A a \in ScanAddrs :
        /\ probes[a].calls = CountIn(Scanned, a)
        /\ probes[a].calls <= CountIn(ips, a)
        /\ ScanDone => probes[a].calls = CountIn(ips, a)
        /\ probes[a].packets =
              IF goos \in SupportedOS THEN probes[a].calls ELSE 0
        /\ \A os \in SupportedOS :
              /\ pingCommand(os).name = "ping"
              /\ pingCommand(os).flag \in {"-n", "-c"}
              /\ pingCommand(os).count = 1

\* a scan has returned in which an address listed twice failed both probes
C17_Witness ==
    /\ ScanDone
    /\ goos = "linux"
    /\ \E a \in ScanAddrs :
          /\ pingErr[a] = ExitErr
          /\ CountIn(ips, a) = 2
          /\ probes[a].calls = 2
          /\ probes[a].packets = 2

\* ---- the claims on the records

\* the records there are: collected, waiting in results, about to be sent
Records ==
    {result.Hosts[k] : k \in DOMAIN result.Hosts}
    \cup {results[k] : k \in DOMAIN results}
    \cup {workerHost[k] : k \in {j \in Workers : workerPc[j] = "send"}}

\* the echo utility ran for the address and exited with success
ProbeSucceeds(ip) == goos \in SupportedOS /\ pingErr[String(ip)] = NoErr

\* C18: for every record, in the summary and on its way to it, IsAlive is
\* true exactly when the probe of the record's address succeeded, and exactly
\* when Error is nil; after a failed probe Error is the error of the run of
\* the echo utility, and on a platform without one the unsupported-platform
\* error.
C18_AliveIffNoError ==
    \A r \in Records :
        /\ r.IsAlive <=> ProbeSucceeds(r.IP)
        /\ r.IsAlive <=> r.Error = NoErr
        /\ ~ProbeSucceeds(r.IP) =>
              r.Error = IF goos \in SupportedOS THEN pingErr[String(r.IP)]
                        ELSE ErrUnsupportedOS

\* a scan on an unknown platform has returned a record for each of three
\* addresses, each not alive and with the unsupported-platform error
C18_Witness ==
    /\ ScanDone
    /\ goos = "plan9"
    /\ Len(ips) = 3
    /\ Len(result.Hosts) = 3
    /\ \A k \in DOMAIN result.Hosts :
          ~result.Hosts[k].IsAlive /\ result.Hosts[k].Error = ErrUnsupportedOS

\* the invocations of scanHost that resolve the name or the hardware address
IsEnrichment(c) == c.fn \in {"net.LookupAddr", "getMACAddress"}

\* C19: enrichment runs only for reachable addresses and only after the
\* probe: a Host that is not alive has empty Hostname, MAC and Vendor, and
\* scanHost has issued nothing but the probe for it; the probe is always the
\* first invocation, and for a Host that is alive the name lookup and the
\* neighbor-table query follow it.
C19_EnrichOnlyAlive ==
    hostPc = "done" =>
        /\ hostCalls # <<>> /\ hostCalls[1] = pingCall
        /\ \A k \in DOMAIN hostCalls : IsEnrichment(hostCalls[k]) => k > 1
        /\ ~hostOut.IsAlive =>
              /\ hostOut.Hostname = NoText
              /\ hostOut.MAC = NoText
              /\ hostOut.Vendor = ""
              /\ hostCalls = <<pingCall>>
        /\ hostOut.IsAlive =>
              hostCalls = <<pingCall, Call("net.LookupAddr", "", "", 0), arpCall>>

\* the probe failed for an address that has a name and a neighbor-table
\* entry
C19_Witness ==
    /\ hostPc = "done"
    /\ ~hostOut.IsAlive
    /\ goos = "linux"
    /\ pingErr[hostIp] = ExitErr
    /\ dnsNames[hostIp].err = NoErr
    /\ dnsNames[hostIp].names # <<>>
    /\ getMACAddress(hostIp) # NoText
    /\ Len(hostCalls) = 1

\* what getVendorFromMAC may return for a hardware address
VendorOrUnknown == VendorNames \cup {"Unknown"}

\* the hardware address has the first three octets of no table prefix
Unmapped(m) == \A e \in vendors : ~SameOUI(m, e.prefix)

\* C20: the Vendor of a Host is non-empty exactly when its MAC is, and is
\* then a name of the vendor table or "Unknown"; getVendorFromMAC returns
\* "Unknown" for every hardware address that is empty, shorter than 8
\* characters or of no table prefix, and nothing but a table name or
\* "Unknown" for any.
C20_VendorIffMAC ==
    /\ hostPc = "done" =>
          /\ hostOut.Vendor # "" <=> hostOut.MAC # NoText
          /\ hostOut.MAC # NoText => hostOut.Vendor \in VendorOrUnknown
    /\ vendorPc = "done" =>
          /\ vendorOut \in VendorOrUnknown
          /\ mac = NoText \/ Len(mac) < 8 \/ Unmapped(mac) =>
                vendorOut = "Unknown"

\* a Host with a hardware address of no table prefix has vendor "Unknown"
C20_Witness ==
    /\ hostPc = "done"
    /\ hostOut.IsAlive
    /\ hostOut.MAC = ToUpper(MacUnmapped)
    /\ hostOut.Vendor = "Unknown"

\* ---- the claims on GenerateIPs: termination, capacity, other families

\* GenerateIPs, once called, keeps running: each step of lines 95-115 that
\* can be taken is taken
FairNetSpec == NetSpec /\ WF_vars(GenBegin \/ GenLoop \/ GenReturn)

\* start .. end holds at most MaxGen addresses, so that the bound on the
\* slice does not cut the loop of lines 111-113 short
ShortRange ==
    \/ ~Le32(start, end)
    \/ LET d == Sub32(end, start) IN d.hi = 0 /\ d.lo < MaxGen

\* C21: GenerateIPs terminates and returns a finite slice for every
\* IPRange, the ranges whose end address is 255.255.255.255 included: once
\* the loop over start .. end is entered, the return is reached.
C21_GenerateTerminates ==
    (netPc = "loop" /\ ShortRange) ~> (netPc = "done")

\* C22: for the text a-b with a numerically greater than b, which the
\* parser accepts, GenerateIPs returns the empty slice, and the capacity
\* it pre-sizes, end - start + 1 in uint32, is the number of addresses it
\* produces, as it is for a = b.
C22_EmptySafe ==
    \A a, b \in NetAddrs :
        (/\ AddrLe(b, a)
         /\ text \in {IPText(a) \o <<Dash>> \o IPText(b),
                      IPText(a) \o <<Space, Dash, Space>> \o IPText(b)}) =>
            /\ netPc # "error"
            /\ netPc = "done" =>
                 /\ genIps = (IF a = b THEN <<IPv4(a[1], a[2], a[3], a[4])>>
                                       ELSE <<>>)
                 /\ capacity = U32(0, Len(genIps))

\* ---- the claim on the forms of a range text

\* the two sides of the text at its dashes
DashParts == Split(text, Dash)

\* ParseIPRange was called on the text and has returned
Parsed == netPc \notin {"idle", "call"}

RangeScanTexts ==
    { IPText(<<127, 0, 0, 1>>),
      <<V6One>>,
      <<V6One, Dash, V6One>>,
      <<V6One, Slash, 128>>,
      IPText(<<127, 0, 0, 1>>) \o <<Dash, V6One>>,
      <<V6One, Dash>> \o IPText(<<127, 0, 0, 1>>) }

\* ScanNetwork is called on the slice GenerateIPs returned, as in
\* scanNetwork() lines 314-319
CallScanNetwork ==
    /\ netPc = "done"
    /\ mainPc = "idle"
    /\ ips' = genIps
    /\ mainPc' = "begin"
    /\ UNCHANGED <<maxWorkers, pingErr, result, jobs, jobsClosed, results,
                   resultsClosed, chanCap, wg, w, feederPc, feederIdx,
                   closerPc, workerPc, workerIp, workerHost, panicked, goos,
                   dnsNames, arpOutput, probes>>
    /\ UNCHANGED <<netVars, hostVars, uiVars>>

\* the state in which a range text is about to be parsed, expanded and
\* scanned
RangeScanInit ==
    /\ text \in RangeScanTexts
    /\ parsed = [rng |-> NilRange, err |-> NoErr]
    /\ netPc = "call"
    /\ start = Zero32
    /\ end = Zero32
    /\ capacity = Zero32
    /\ i = Zero32
    /\ genIps = <<>>
    /\ ips = <<>>
    /\ maxWorkers \in 1 .. MaxWorkers
    /\ pingErr \in [ScanAddrs -> {NoErr, ExitErr}]
    /\ goos = "linux"
    /\ dnsNames = ScanDns
    /\ arpOutput = ScanArp
    /\ probes = NoProbes
    /\ PoolIdle
    /\ HostIdle
    /\ UIIdle

RangeScanNext ==
    \/ NetNext
    \/ CallScanNetwork
    \/ ScanNext

RangeScanSpec == RangeScanInit /\ [][RangeScanNext]_vars

\* an endpoint of the text is an IPv6 address
HasIPv6Endpoint == Contains(text, V6One)

\* C24: when an endpoint of the IPRange is no 32-bit IPv4 address (an IPv6
\* endpoint, alone or next to an IPv4 endpoint), GenerateIPs returns the
\* empty slice and no error, and the scan over it returns a summary with
\* no record and no reachable host.
C24_OtherFamilyEmpty ==
    (Parsed /\ HasIPv6Endpoint) =>
        /\ netPc # "error"
        /\ parsed.err = NoErr
        /\ To4(parsed.rng.StartIP) = NoIP \/ To4(parsed.rng.EndIP) = NoIP
        /\ netPc # "loop"
        /\ genIps = <<>>
        /\ ips = <<>>
        /\ ~panicked
        /\ result.Hosts = <<>>
        /\ result.AliveHosts = 0
        /\ result.TotalHosts = 0

\* the scan over the range from an IPv4 to an IPv6 address has returned
C24_Witness ==
    /\ text = IPText(<<127, 0, 0, 1>>) \o <<Dash, V6One>>
    /\ netPc = "done"
    /\ genIps = <<>>
    /\ mainPc = "done"
    /\ result.Hosts = <<>>
    /\ result.AliveHosts = 0

\* ---- the claim on the timeout given to the echo utility

\* the unit in which the echo utility of a platform reads the value of its
\* timeout option: Windows ping -w and macOS ping -W take milliseconds,
\* Linux ping -W takes seconds
OptionUnit(os) ==
    CASE os \in {"windows", "darwin"} -> Millisecond
      [] os = "linux" -> Second

\* the time the utility of platform os waits when given the option, in
\* milliseconds
WaitMillis(os, opt) == opt.value * (OptionUnit(os) \div Millisecond)

\* C25: on every supported platform pingHost passes the caller's timeout
\* in the unit that platform's utility expects (milliseconds for Windows
\* -w and macOS -W, seconds for Linux -W): the utility waits the caller's
\* timeout T, never 1000 x T.
C25_TimeoutUnit ==
    (hostPc = "done" /\ goos \in SupportedOS) =>
        /\ pingOpt.flag = (IF goos = "windows" THEN "-w" ELSE "-W")
        /\ WaitMillis(goos, pingOpt) = timeout \div Millisecond

\* C26: the summary ScanNetwork returns to its caller carries, in
\* NetworkRange, the range text the caller supplied for the scan.
C26_RangeCarried ==
    mainPc = "done" => result.NetworkRange = text

====
